---- MODULE Spec2Model ----
(***************************************************************************)
(* State-machine model of the functional-diagrams editor:                  *)
(*   src/src/App.tsx                       (App: the two use-undo          *)
(*                                          timelines, the intents)        *)
(*   src/src/components/NodeComponent.tsx  (one mounted component per      *)
(*                                          rendered node, with its own    *)
(*                                          useState copies of the fields) *)
(* Every handler is one action.  The library calls the handlers make       *)
(* (use-undo's reducer, react-flow-renderer's addEdge, applyNodeChanges,   *)
(* applyEdgeChanges and useReactFlow().setNodes) are operators computed    *)
(* the way the library computes them.                                      *)
(***************************************************************************)
EXTENDS Integers, Sequences, FiniteSets, TLC

VARIABLES
    nodesState,          \* App.tsx:29  useUndo<Node[]>([])  {past, present, future}
    edgesState,          \* App.tsx:30  useUndo<Edge[]>([])  {past, present, future}
    connectionLineType,  \* App.tsx:39  useState('step')
    local,               \* NodeComponent.tsx:8-12  useState copies, one per mounted node id
    now,                 \* the clock +new Date() reads (App.tsx:78)
    file,                \* the text of the last diagram.json written by onSave
    alert,               \* the notice raised by the last intent ("" when none)
    last,                \* the last intent handled and its arguments
    saved,               \* the document onSave wrote into file
    budget,              \* number of intents still to be handled
    run                  \* the lockstep scenario: k mutations, k undos, k redos

vars == <<nodesState, edgesState, connectionLineType, local, now, file, alert,
          last, saved, budget, run>>

----------------------------------------------------------------------------
(* Bounds of the model *)

MaxSteps == 4
MaxMutations == 3
MaxNodes == 2
MaxPorts == 2
MaxClock == 2
MaxHistory == 9

----------------------------------------------------------------------------
(* Strings built by the template literals of the source *)

Digit == <<"0", "1", "2", "3", "4", "5", "6", "7", "8", "9">>

RECURSIVE NumStr(_)
NumStr(n) ==
    IF n < 10 THEN Digit[n + 1]
    ELSE NumStr(n \div 10) \o Digit[(n % 10) + 1]

\* `node_${+new Date()}`
NodeId(t) == "node_" \o NumStr(t)

\* { id: `input-${inputs.length}`, name: `Input ${inputs.length + 1}` }
NewInputPort(inputs) ==
    [id |-> "input-" \o NumStr(Len(inputs)),
     name |-> "Input " \o NumStr(Len(inputs) + 1)]

\* { id: `output-${outputs.length}`, name: `Output ${outputs.length + 1}` }
NewOutputPort(outputs) ==
    [id |-> "output-" \o NumStr(Len(outputs)),
     name |-> "Output " \o NumStr(Len(outputs) + 1)]

----------------------------------------------------------------------------
(* Values the user can type or pick *)

LabelValues == {"New Node", "Adder"}
DescriptionValues == {"", "sum"}
ColorValues == {"#ffffff", "#ff0000"}
PortNameValues == {"x"}
LineTypeValues == {"step", "bezier"}

\* position: { x: 250, y: 5 }, and where a drag drops a node
DefaultPosition == <<250, 5>>
MovedPosition == <<265, 20>>

----------------------------------------------------------------------------
(* use-undo: the reducer behind nodesDispatch / edgesDispatch *)

EmptyTimeline == [past |-> <<>>, present |-> <<>>, future |-> <<>>]

\* SET that forgets to clear future.
TimelineSetKeepFuture(state, newPresent, identical) ==
    IF identical THEN state
    ELSE [past |-> Append(state.past, state.present),
          present |-> newPresent,
          future |-> state.future]

\* SET: returns the state untouched when newPresent === present (the same
\* array object, `identical`), else pushes present onto past and clears future.
TimelineSet(state, newPresent, identical) ==
    IF identical THEN state
    ELSE [past |-> Append(state.past, state.present),
          present |-> newPresent,
          future |-> <<>>]

\* UNDO: no-op on an empty past.
TimelineUndo(state) ==
    IF Len(state.past) = 0 THEN state
    ELSE [past |-> SubSeq(state.past, 1, Len(state.past) - 1),
          present |-> state.past[Len(state.past)],
          future |-> <<state.present>> \o state.future]

\* REDO that does not keep the present it leaves.
TimelineRedoDropPresent(state) ==
    IF Len(state.future) = 0 THEN state
    ELSE [past |-> state.past,
          present |-> state.future[1],
          future |-> Tail(state.future)]

\* REDO: no-op on an empty future.
TimelineRedo(state) ==
    IF Len(state.future) = 0 THEN state
    ELSE [past |-> Append(state.past, state.present),
          present |-> state.future[1],
          future |-> Tail(state.future)]

\* const setNodes = (newNodes) => nodesDispatch.set(newNodes)
setNodes(newNodes) == TimelineSet(nodesState, newNodes, FALSE)

\* setEdges that overwrites present without going through the log.
setEdgesInPlace(newEdges, identical) == [edgesState EXCEPT !.present = newEdges]

\* const setEdges = (newEdges) => edgesDispatch.set(newEdges)
setEdges(newEdges, identical) == TimelineSet(edgesState, newEdges, identical)

nodes == nodesState.present
edges == edgesState.present

----------------------------------------------------------------------------
(* react-flow-renderer: the node list the components work on *)

IdsOf(ns) == {ns[i].id : i \in DOMAIN ns}

LastWithId(ns, id) ==
    ns[CHOOSE i \in DOMAIN ns :
          /\ ns[i].id = id
          /\ \A j \in DOMAIN ns : ns[j].id = id => j <= i]

RECURSIVE InternalsFrom(_, _)
InternalsFrom(ns, i) ==
    IF i > Len(ns) THEN <<>>
    ELSE (IF \A j \in 1..(i - 1) : ns[j].id # ns[i].id
          THEN <<LastWithId(ns, ns[i].id)>>
          ELSE <<>>) \o InternalsFrom(ns, i + 1)

\* The store keeps the `nodes` prop in a Map keyed by node id, and
\* useReactFlow().setNodes hands Array.from(map.values()) to its updater: one
\* entry per id, in order of first occurrence, holding the last occurrence.
Internals(ns) == InternalsFrom(ns, 1)

\* applyNodeChanges / applyEdgeChanges with 'remove' changes for the ids.
applyRemoveChanges(ids, elements) ==
    SelectSeq(elements, LAMBDA el : el.id \notin ids)

\* useReactFlow().setNodes(updater) of a controlled flow: an empty result is
\* sent to onNodesChange as 'remove' changes for every node, any other as
\* 'reset' changes, for which applyNodeChanges returns the items themselves.
\* onNodesChange then calls setNodes(updatedNodes).
rfSetNodes(nextNodes) ==
    IF Len(nextNodes) = 0
    THEN setNodes(applyRemoveChanges(IdsOf(Internals(nodes)), nodes))
    ELSE setNodes(nextNodes)

----------------------------------------------------------------------------
(* NodeComponent: mounted components and their useState copies *)

\* useState(data.label || ''), useState(data.inputs || []), ...
InitLocal(data) ==
    [label |-> data.label,
     description |-> data.description,
     color |-> data.color,
     inputs |-> data.inputs,
     outputs |-> data.outputs]

\* One component per rendered node id.  A component that stays mounted keeps
\* its useState values; one that mounts initialises them from its data prop.
Remount(loc, ns) ==
    [id \in IdsOf(ns) |->
        IF id \in DOMAIN loc THEN loc[id] ELSE InitLocal(LastWithId(ns, id).data)]

\* updateNodeData whose `node.data = ...` lands on the node objects the stored
\* snapshots share, so that the snapshots of past change with the present.
updateNodeDataInPlace(id, field, value) ==
    LET upd(ns) == [i \in DOMAIN ns |->
                        IF ns[i].id = id
                        THEN [ns[i] EXCEPT !.data = [@ EXCEPT ![field] = value]]
                        ELSE ns[i]]
        set == rfSetNodes(upd(Internals(nodes)))
    IN  [set EXCEPT !.past = [k \in DOMAIN set.past |-> upd(set.past[k])]]

\* updateNodeData(updatedData), for updatedData = { [field]: value }.  The
\* updater assigns node.data on the objects of the renderer's node map, which
\* are copies ({...node}) of the objects in App's snapshots, never the objects
\* of a stored snapshot.
updateNodeData(id, field, value) ==
    LET ns == Internals(nodes)
    IN  rfSetNodes([i \in DOMAIN ns |->
            IF ns[i].id = id
            THEN [ns[i] EXCEPT !.data = [@ EXCEPT ![field] = value]]
            ELSE ns[i]])

\* inputs.filter((_, i) => i !== index), index counted from 0
RemoveAt(s, index) ==
    [i \in 1..(Len(s) - 1) |-> IF i <= index THEN s[i] ELSE s[i + 1]]

\* inputs.map((input, i) => i === index ? { ...input, name: newName } : input)
RenameAt(s, index, newName) ==
    [i \in DOMAIN s |-> IF i = index + 1 THEN [s[i] EXCEPT !.name = newName] ELSE s[i]]

----------------------------------------------------------------------------
(* react-flow-renderer: addEdge *)

getEdgeId(p) ==
    "reactflow__edge-" \o p.source \o p.sourceHandle \o "-" \o p.target \o p.targetHandle

\* addEdge without the check for an existing connection.
connectionExistsNever(edge, es) == FALSE

connectionExists(edge, es) ==
    \E i \in DOMAIN es :
        /\ es[i].source = edge.source
        /\ es[i].target = edge.target
        /\ es[i].sourceHandle = edge.sourceHandle
        /\ es[i].targetHandle = edge.targetHandle

\* addEdge returns the `edges` array itself when the connection exists, else
\* edges.concat(edge) with the id derived from the endpoints.
addEdge(edgeParams, es) ==
    IF connectionExists(edgeParams, es) THEN es
    ELSE Append(es, [id |-> getEdgeId(edgeParams),
                     source |-> edgeParams.source,
                     sourceHandle |-> edgeParams.sourceHandle,
                     target |-> edgeParams.target,
                     targetHandle |-> edgeParams.targetHandle,
                     type |-> edgeParams.type,
                     selectable |-> edgeParams.selectable])

----------------------------------------------------------------------------
(* The document text: JSON.stringify / JSON.parse *)

NoFile == [syntax |-> "none", type |-> "none", keys |-> {}, nodes |-> <<>>, edges |-> <<>>]

\* text that is not JSON
BadText == [syntax |-> "bad", type |-> "none", keys |-> {}, nodes |-> <<>>, edges |-> <<>>]

\* the text `null`
NullText == [syntax |-> "ok", type |-> "null", keys |-> {}, nodes |-> <<>>, edges |-> <<>>]

\* the text `{}`
EmptyObjectText == [syntax |-> "ok", type |-> "object", keys |-> {}, nodes |-> <<>>, edges |-> <<>>]

\* A stringify that loses the edges key.
JSONStringifyNodesOnly(ns, es) ==
    [syntax |-> "ok", type |-> "object", keys |-> {"nodes"},
     nodes |-> ns, edges |-> <<>>]

\* JSON.stringify({ nodes, edges })
JSONStringify(ns, es) ==
    [syntax |-> "ok", type |-> "object", keys |-> {"nodes", "edges"},
     nodes |-> ns, edges |-> es]

\* A diagram.json written by an earlier session: add node, add node, add output
\* on the first, add input and add output on the second, connect, save.
SampleNodes ==
    <<[id |-> NodeId(1),
       data |-> [label |-> "New Node", description |-> "",
                 inputs |-> <<>>, outputs |-> <<NewOutputPort(<<>>)>>,
                 color |-> "#ffffff"],
       position |-> DefaultPosition],
      [id |-> NodeId(2),
       data |-> [label |-> "New Node", description |-> "",
                 inputs |-> <<NewInputPort(<<>>)>>, outputs |-> <<NewOutputPort(<<>>)>>,
                 color |-> "#ffffff"],
       position |-> DefaultPosition]>>

SampleEdges ==
    addEdge([source |-> NodeId(1), sourceHandle |-> NewOutputPort(<<>>).id,
             target |-> NodeId(2), targetHandle |-> NewInputPort(<<>>).id,
             type |-> "step", selectable |-> TRUE], <<>>)

SampleText == JSONStringify(SampleNodes, SampleEdges)

\* JSON.parse(flowData) throws on text that is not JSON; flow.nodes throws on null.
LoadThrows(text) == text.syntax # "ok" \/ text.type = "null"

\* flow.nodes || []
FlowNodes(text) == IF "nodes" \in text.keys THEN text.nodes ELSE <<>>

\* flow.edges || []
FlowEdges(text) == IF "edges" \in text.keys THEN text.edges ELSE <<>>

----------------------------------------------------------------------------
(* Bookkeeping of the intent sequence *)

NoRun == [phase |-> "off", k |-> 0, u |-> 0, r |-> 0, nodes |-> <<>>, edges |-> <<>>]
StartRun == [phase |-> "mut", k |-> 0, u |-> 0, r |-> 0, nodes |-> <<>>, edges |-> <<>>]

\* The lockstep scenario is k mutation intents, then k undos, then k redos;
\* the presents just before the first undo are kept in run.nodes, run.edges.
\* kind: "mut" for a mutation intent, "undo", "redo".
NextRun(kind) ==
    CASE run.phase = "mut" /\ kind = "mut" /\ run.k < MaxMutations ->
            [run EXCEPT !.k = @ + 1]
      [] run.phase = "mut" /\ kind = "undo" /\ run.k >= 1 ->
            [run EXCEPT !.phase = "undo", !.u = 1, !.nodes = nodes, !.edges = edges]
      [] run.phase = "undo" /\ kind = "undo" /\ run.u < run.k -> [run EXCEPT !.u = @ + 1]
      [] run.phase = "undo" /\ kind = "redo" /\ run.u = run.k ->
            [run EXCEPT !.phase = "redo", !.r = 1]
      [] run.phase = "redo" /\ kind = "redo" /\ run.r < run.k -> [run EXCEPT !.r = @ + 1]
      [] OTHER -> NoRun

\* An intent is handled while the budget lasts; under the lockstep scenario,
\* while it keeps the scenario's shape.
NoParams == [source |-> "", sourceHandle |-> "", target |-> "", targetHandle |-> ""]

NoIntent ==
    [op |-> "init", id |-> "", port |-> "", note |-> "", params |-> NoParams,
     nodesFuture |-> 0, edgesFuture |-> 0, prev |-> "init"]

Step(kind) ==
    IF run.phase = "off"
    THEN budget > 0 /\ budget' = budget - 1 /\ run' = run
    ELSE NextRun(kind).phase # "off" /\ run' = NextRun(kind) /\ budget' = budget

Record(op, id, port, note, params) ==
    last' = [op |-> op, id |-> id, port |-> port, note |-> note, params |-> params,
             nodesFuture |-> Len(nodesState.future),
             edgesFuture |-> Len(edgesState.future), prev |-> last.op]

Intent(op, id, port, note, kind) ==
    /\ Step(kind)
    /\ Record(op, id, port, note, NoParams)

----------------------------------------------------------------------------
InitApp ==
    /\ nodesState = EmptyTimeline
    /\ edgesState = EmptyTimeline
    /\ connectionLineType = "step"
    /\ local = Remount(<<>>, <<>>)
    /\ now = 1
    /\ file = NoFile
    /\ alert = ""
    /\ last = NoIntent
    /\ saved = [nodes |-> <<>>, edges |-> <<>>]

Init == InitApp /\ budget = MaxSteps /\ run = NoRun

InitLockstep == InitApp /\ budget = 0 /\ run = StartRun

\* App.onAddNode; t is what +new Date() reads: the clock has not gone back
\* since the last reading.
onAddNode(t) ==
    /\ Len(nodes) < MaxNodes
    /\ Intent("addNode", NodeId(t), "", "", "mut")
    /\ now' = t
    /\ LET newNode == [id |-> NodeId(t),
                       data |-> [label |-> "New Node", description |-> "",
                                 inputs |-> <<>>, outputs |-> <<>>,
                                 color |-> "#ffffff"],
                       position |-> DefaultPosition]
       IN  /\ nodesState' = setNodes(Append(nodes, newNode))
           /\ local' = Remount(local, nodesState'.present)
    /\ alert' = ""
    /\ UNCHANGED <<edgesState, connectionLineType, file, saved>>

----------------------------------------------------------------------------
(* NodeComponent handlers, for the component mounted for node `id` *)

\* Every handler ends in updateNodeData or setNodes of useReactFlow, whose
\* result App.onNodesChange installs with setNodes; the components are then
\* rendered again from the new present.
Commit(newNodesState, newLocal, op, id, port) ==
    /\ Intent(op, id, port, "", "mut")
    /\ nodesState' = newNodesState
    /\ local' = Remount(newLocal, newNodesState.present)
    /\ alert' = ""
    /\ UNCHANGED <<edgesState, connectionLineType, now, file, saved>>

addInput(id) ==
    LET inputs == local[id].inputs
        newInputs == Append(inputs, NewInputPort(inputs))
    IN  /\ Len(inputs) < MaxPorts
        /\ Commit(updateNodeData(id, "inputs", newInputs),
                  [local EXCEPT ![id].inputs = newInputs],
                  "addInput", id, NewInputPort(inputs).id)

addOutput(id) ==
    LET outputs == local[id].outputs
        newOutputs == Append(outputs, NewOutputPort(outputs))
    IN  /\ Len(outputs) < MaxPorts
        /\ Commit(updateNodeData(id, "outputs", newOutputs),
                  [local EXCEPT ![id].outputs = newOutputs],
                  "addOutput", id, NewOutputPort(outputs).id)

removeInput(id, index) ==
    LET inputs == local[id].inputs
        newInputs == RemoveAt(inputs, index)
    IN  Commit(updateNodeData(id, "inputs", newInputs),
               [local EXCEPT ![id].inputs = newInputs],
               "removeInput", id, inputs[index + 1].id)

removeOutput(id, index) ==
    LET outputs == local[id].outputs
        newOutputs == RemoveAt(outputs, index)
    IN  Commit(updateNodeData(id, "outputs", newOutputs),
               [local EXCEPT ![id].outputs = newOutputs],
               "removeOutput", id, outputs[index + 1].id)

renameInput(id, index, newName) ==
    LET inputs == local[id].inputs
        newInputs == RenameAt(inputs, index, newName)
    IN  /\ inputs[index + 1].name # newName
        /\ Commit(updateNodeData(id, "inputs", newInputs),
                  [local EXCEPT ![id].inputs = newInputs],
                  "renameInput", id, inputs[index + 1].id)

renameOutput(id, index, newName) ==
    LET outputs == local[id].outputs
        newOutputs == RenameAt(outputs, index, newName)
    IN  /\ outputs[index + 1].name # newName
        /\ Commit(updateNodeData(id, "outputs", newOutputs),
                  [local EXCEPT ![id].outputs = newOutputs],
                  "renameOutput", id, outputs[index + 1].id)

\* onChange of the color input: setColor(v); updateNodeData({ color: v })
changeColor(id, v) ==
    /\ local[id].color # v
    /\ Commit(updateNodeData(id, "color", v), [local EXCEPT ![id].color = v],
              "changeColor", id, "")

\* onChange of the name input: setLabel(v); updateNodeData({ label: v })
changeLabel(id, v) ==
    /\ local[id].label # v
    /\ Commit(updateNodeData(id, "label", v), [local EXCEPT ![id].label = v],
              "changeLabel", id, "")

\* onChange of the textarea: setDescription(v); updateNodeData({ description: v })
changeDescription(id, v) ==
    /\ local[id].description # v
    /\ Commit(updateNodeData(id, "description", v),
              [local EXCEPT ![id].description = v],
              "changeDescription", id, "")

\* setNodes((nodes) => nodes.filter((node) => node.id !== id))
deleteNode(id) ==
    Commit(rfSetNodes(SelectSeq(Internals(nodes), LAMBDA n : n.id # id)),
           local, "deleteNode", id, "")

----------------------------------------------------------------------------
(* App handlers *)

\* App.onNodesChange with a 'remove' change from the renderer (the Delete key
\* on a selected node)
onNodesChangeRemove(id) ==
    /\ Intent("nodesChangeRemove", id, "", "", "mut")
    /\ nodesState' = setNodes(applyRemoveChanges({id}, nodes))
    /\ local' = Remount(local, nodesState'.present)
    /\ alert' = ""
    /\ UNCHANGED <<edgesState, connectionLineType, now, file, saved>>

\* App.onNodesChange with a 'position' change from the renderer (a drag)
onNodesChangePosition(id, position) ==
    /\ Intent("nodesChangePosition", id, "", "", "mut")
    /\ \E i \in DOMAIN nodes : nodes[i].id = id /\ nodes[i].position # position
    /\ nodesState' = setNodes([i \in DOMAIN nodes |->
            IF nodes[i].id = id THEN [nodes[i] EXCEPT !.position = position]
            ELSE nodes[i]])
    /\ local' = Remount(local, nodesState'.present)
    /\ alert' = ""
    /\ UNCHANGED <<edgesState, connectionLineType, now, file, saved>>

\* App.onEdgesChange with a 'remove' change from the renderer
onEdgesChangeRemove(id) ==
    /\ Intent("edgesChangeRemove", id, "", "", "mut")
    /\ edgesState' = setEdges(applyRemoveChanges({id}, edges), FALSE)
    /\ alert' = ""
    /\ UNCHANGED <<nodesState, local, connectionLineType, now, file, saved>>

\* App.onConnect: the renderer offers a connection from a source handle (one
\* per entry of the component's outputs) to a target handle (one per entry of
\* its inputs).
onConnect(source, sourceHandle, target, targetHandle) ==
    LET newEdge == [source |-> source, sourceHandle |-> sourceHandle,
                    target |-> target, targetHandle |-> targetHandle,
                    type |-> connectionLineType, selectable |-> TRUE]
    IN  /\ Step("mut")
        /\ Record("connect", getEdgeId(newEdge), "",
                  IF connectionExists(newEdge, edges) THEN "exists" ELSE "new",
                  [source |-> source, sourceHandle |-> sourceHandle,
                   target |-> target, targetHandle |-> targetHandle])
        /\ edgesState' = setEdges(addEdge(newEdge, edges), connectionExists(newEdge, edges))
        /\ alert' = ""
        /\ UNCHANGED <<nodesState, local, connectionLineType, now, file, saved>>

\* App.onConnectionTypeChange
onConnectionTypeChange(newType) ==
    /\ Intent("connectionTypeChange", "", "", "", "mut")
    /\ newType # connectionLineType
    /\ connectionLineType' = newType
    /\ edgesState' = setEdges([i \in DOMAIN edges |-> [edges[i] EXCEPT !.type = newType]],
                              FALSE)
    /\ alert' = ""
    /\ UNCHANGED <<nodesState, local, now, file, saved>>

\* App.onSave: the downloaded diagram.json
onSave ==
    /\ Intent("save", "", "", "", "mut")
    /\ file' = JSONStringify(nodes, edges)
    /\ saved' = [nodes |-> nodes, edges |-> edges]
    /\ alert' = ""
    /\ UNCHANGED <<nodesState, edgesState, connectionLineType, local, now>>

\* onLoad that empties the node store before it parses.
onLoadClearFirst(name, flowData) ==
    IF LoadThrows(flowData)
    THEN /\ Intent("load", name, "", "throws", "mut")
         /\ alert' = "Invalid JSON data"
         /\ nodesState' = setNodes(<<>>)
         /\ local' = Remount(local, nodesState'.present)
         /\ UNCHANGED <<edgesState, connectionLineType, now, file, saved>>
    ELSE /\ Intent("load", name, "", "", "mut")
         /\ nodesState' = setNodes(FlowNodes(flowData))
         /\ edgesState' = setEdges(FlowEdges(flowData), FALSE)
         /\ local' = Remount(local, nodesState'.present)
         /\ alert' = ""
         /\ UNCHANGED <<connectionLineType, now, file, saved>>

\* onLoad that forgets setEdges.
onLoadNodesOnly(name, flowData) ==
    IF LoadThrows(flowData)
    THEN /\ Intent("load", name, "", "throws", "mut")
         /\ alert' = "Invalid JSON data"
         /\ UNCHANGED <<nodesState, edgesState, connectionLineType, local, now, file, saved>>
    ELSE /\ Intent("load", name, "", "", "mut")
         /\ nodesState' = setNodes(FlowNodes(flowData))
         /\ local' = Remount(local, nodesState'.present)
         /\ alert' = ""
         /\ UNCHANGED <<edgesState, connectionLineType, now, file, saved>>

\* App.onLoad (reached from onFileUpload with the text of the chosen file)
onLoad(name, flowData) ==
    IF LoadThrows(flowData)
    THEN /\ Intent("load", name, "", "throws", "mut")
         /\ alert' = "Invalid JSON data"
         /\ UNCHANGED <<nodesState, edgesState, connectionLineType, local, now, file, saved>>
    ELSE /\ Intent("load", name, "", "", "mut")
         /\ nodesState' = setNodes(FlowNodes(flowData))
         /\ edgesState' = setEdges(FlowEdges(flowData), FALSE)
         /\ local' = Remount(local, nodesState'.present)
         /\ alert' = ""
         /\ UNCHANGED <<connectionLineType, now, file, saved>>

\* undo that forgets edgesDispatch.undo().
undoNodesOnly ==
    /\ Intent("undo", "", "", "", "undo")
    /\ nodesState' = TimelineUndo(nodesState)
    /\ local' = Remount(local, nodesState'.present)
    /\ alert' = ""
    /\ UNCHANGED <<edgesState, connectionLineType, now, file, saved>>

\* undo that steps the edge timeline only when the node timeline cannot move.
undoOneTimeline ==
    /\ Intent("undo", "", "", "", "undo")
    /\ nodesState' = TimelineUndo(nodesState)
    /\ edgesState' = IF Len(nodesState.past) = 0 THEN TimelineUndo(edgesState)
                     ELSE edgesState
    /\ local' = Remount(local, nodesState'.present)
    /\ alert' = ""
    /\ UNCHANGED <<connectionLineType, now, file, saved>>

\* App.undo: both timelines, whether or not either can move
undo ==
    /\ Intent("undo", "", "", "", "undo")
    /\ nodesState' = TimelineUndo(nodesState)
    /\ edgesState' = TimelineUndo(edgesState)
    /\ local' = Remount(local, nodesState'.present)
    /\ alert' = ""
    /\ UNCHANGED <<connectionLineType, now, file, saved>>

\* App.redo
redo ==
    /\ Intent("redo", "", "", "", "redo")
    /\ nodesState' = TimelineRedo(nodesState)
    /\ edgesState' = TimelineRedo(edgesState)
    /\ local' = Remount(local, nodesState'.present)
    /\ alert' = ""
    /\ UNCHANGED <<connectionLineType, now, file, saved>>

\* canUndo that looks at the node timeline only.
canUndoNodesOnly == Len(nodesState.past) > 0

\* const canUndo = nodesState.past.length > 0 || edgesState.past.length > 0
canUndo == Len(nodesState.past) > 0 \/ Len(edgesState.past) > 0

\* const canRedo = nodesState.future.length > 0 || edgesState.future.length > 0
canRedo == Len(nodesState.future) > 0 \/ Len(edgesState.future) > 0

\* The page is opened again: App is constructed anew; the file and the clock
\* are not part of the page.
NewSession ==
    /\ run.phase = "off"
    /\ budget > 0
    /\ budget' = budget - 1
    /\ run' = run
    /\ nodesState' = EmptyTimeline
    /\ edgesState' = EmptyTimeline
    /\ connectionLineType' = "step"
    /\ local' = Remount(<<>>, <<>>)
    /\ alert' = ""
    /\ last' = NoIntent
    /\ UNCHANGED <<now, file, saved>>

----------------------------------------------------------------------------
HandleIds(ports) == {ports[i].id : i \in DOMAIN ports}

InputIndex(id) == 0..(Len(local[id].inputs) - 1)
OutputIndex(id) == 0..(Len(local[id].outputs) - 1)

Handle ==
    \/ \E t \in now..MaxClock : onAddNode(t)
    \/ \E id \in DOMAIN local : addInput(id)
    \/ \E id \in DOMAIN local : addOutput(id)
    \/ \E id \in DOMAIN local : \E index \in InputIndex(id) : removeInput(id, index)
    \/ \E id \in DOMAIN local : \E index \in OutputIndex(id) : removeOutput(id, index)
    \/ \E id \in DOMAIN local : \E index \in InputIndex(id) :
            \E newName \in PortNameValues : renameInput(id, index, newName)
    \/ \E id \in DOMAIN local : \E index \in OutputIndex(id) :
            \E newName \in PortNameValues : renameOutput(id, index, newName)
    \/ \E id \in DOMAIN local : \E v \in ColorValues : changeColor(id, v)
    \/ \E id \in DOMAIN local : \E v \in LabelValues : changeLabel(id, v)
    \/ \E id \in DOMAIN local : \E v \in DescriptionValues : changeDescription(id, v)
    \/ \E id \in DOMAIN local : deleteNode(id)
    \/ \E id \in IdsOf(nodes) : onNodesChangeRemove(id)
    \/ \E id \in IdsOf(nodes) : onNodesChangePosition(id, MovedPosition)
    \/ \E id \in IdsOf(edges) : onEdgesChangeRemove(id)
    \/ \E source \in DOMAIN local, target \in DOMAIN local :
            \E sourceHandle \in HandleIds(local[source].outputs),
               targetHandle \in HandleIds(local[target].inputs) :
                onConnect(source, sourceHandle, target, targetHandle)
    \/ \E newType \in LineTypeValues : onConnectionTypeChange(newType)
    \/ onSave
    \/ onLoad("bad", BadText)
    \/ onLoad("null", NullText)
    \/ onLoad("empty", EmptyObjectText)
    \/ onLoad("sample", SampleText)
    \/ file # NoFile /\ onLoad("file", file)
    \/ undo
    \/ redo

Next == Handle \/ NewSession

Spec == Init /\ [][Next]_vars

\* One session, from the empty state: k mutation intents, k undos, k redos.
SpecLockstep == InitLockstep /\ [][Handle]_vars

\* One session, from the empty state, of MaxHistory intents that build and
\* wire nodes and travel the history: no deletion, no load.
InitHistory == InitApp /\ budget = MaxHistory /\ run = NoRun

NextHistory ==
    \/ \E t \in now..MaxClock : onAddNode(t)
    \/ \E id \in DOMAIN local : addInput(id)
    \/ \E id \in DOMAIN local : addOutput(id)
    \/ \E source \in DOMAIN local, target \in DOMAIN local :
            \E sourceHandle \in HandleIds(local[source].outputs),
               targetHandle \in HandleIds(local[target].inputs) :
                onConnect(source, sourceHandle, target, targetHandle)
    \/ undo
    \/ redo

SpecHistory == InitHistory /\ [][NextHistory]_vars
----------------------------------------------------------------------------
(* Properties *)

EdgeTouchesNode(e, id) == e.source = id \/ e.target = id

EdgeTouchesPort(e, id, port) ==
    \/ e.source = id /\ e.sourceHandle = port
    \/ e.target = id /\ e.targetHandle = port

EndpointsOf(e) ==
    [source |-> e.source, sourceHandle |-> e.sourceHandle,
     target |-> e.target, targetHandle |-> e.targetHandle]

Distinct(ports) ==
    \A i, j \in DOMAIN ports : i # j => ports[i].id # ports[j].id

\* C1: after the delete-node intent on node X, no edge of the present edge
\* snapshot has X as its source node or as its target node.
C1_DeleteNodeCascades ==
    last.op = "deleteNode" =>
        \A i \in DOMAIN edges : ~EdgeTouchesNode(edges[i], last.id)

\* C2: after a remove-input or remove-output intent that removes port P from
\* node X, no edge of the present edge snapshot has (X, P) as an endpoint.
C2_RemovePortCascades ==
    last.op \in {"removeInput", "removeOutput"} =>
        \A i \in DOMAIN edges : ~EdgeTouchesPort(edges[i], last.id, last.port)

\* C3: from the empty state, k mutation intents followed by k undos leave both
\* presents empty, and k redos after that make both presents what they were
\* just before the first undo.
C3_Lockstep ==
    /\ (run.phase = "undo" /\ run.u = run.k) => (nodes = <<>> /\ edges = <<>>)
    /\ (run.phase = "redo" /\ run.r = run.k) => (nodes = run.nodes /\ edges = run.edges)

C3_Witness ==
    /\ run.phase = "redo"
    /\ run.r = run.k
    /\ run.k >= 2
    /\ Len(run.nodes) > 0
    /\ Len(run.edges) > 0
    /\ Len(nodesState.past) >= 2
    /\ Len(edgesState.past) >= 2

\* The intents that call setNodes, and those that call setEdges with a new array.
SetsNodes(l) ==
    \/ l.op \in {"addNode", "addInput", "addOutput", "removeInput", "removeOutput",
                 "renameInput", "renameOutput", "changeColor", "changeLabel",
                 "changeDescription", "deleteNode", "nodesChangeRemove",
                 "nodesChangePosition"}
    \/ l.op = "load" /\ l.note # "throws"

SetsEdges(l) ==
    \/ l.op \in {"connectionTypeChange", "edgesChangeRemove"}
    \/ l.op = "connect" /\ l.note = "new"
    \/ l.op = "load" /\ l.note # "throws"

\* C4: on each timeline, a set of a new present while future is non-empty
\* pushes the old present onto past and leaves future empty, and a redo that
\* follows a set changes nothing on that timeline.
C4_RedoBranchDiscard ==
    [][ /\ (SetsNodes(last') /\ nodesState.future # <<>>) =>
              /\ nodesState'.past = Append(nodesState.past, nodesState.present)
              /\ nodesState'.future = <<>>
        /\ (SetsEdges(last') /\ edgesState.future # <<>>) =>
              /\ edgesState'.past = Append(edgesState.past, edgesState.present)
              /\ edgesState'.future = <<>>
        /\ (SetsNodes(last) /\ last'.op = "redo") => nodesState' = nodesState
        /\ (SetsEdges(last) /\ last'.op = "redo") => edgesState' = edgesState
      ]_vars

C4_Witness ==
    /\ SetsNodes(last)
    /\ last.nodesFuture > 0
    /\ nodesState.future = <<>>
    /\ Len(nodesState.past) >= 2

\* C5: in every node of the present node snapshot the ids of the input list
\* are pairwise distinct, and so are the ids of the output list.
C5_PortIdsDistinct ==
    \A i \in DOMAIN nodes :
        Distinct(nodes[i].data.inputs) /\ Distinct(nodes[i].data.outputs)

\* C6: add-input on a node whose record in the present node snapshot has n
\* inputs appends to them the port "input-n" named "Input n+1"; add-output
\* likewise appends "output-n" named "Output n+1" to its n outputs.
C6_AddPortCountsSnapshot ==
    [][ /\ last'.op = "addInput" =>
              LastWithId(nodes', last'.id).data.inputs =
                  Append(LastWithId(nodes, last'.id).data.inputs,
                         NewInputPort(LastWithId(nodes, last'.id).data.inputs))
        /\ last'.op = "addOutput" =>
              LastWithId(nodes', last'.id).data.outputs =
                  Append(LastWithId(nodes, last'.id).data.outputs,
                         NewOutputPort(LastWithId(nodes, last'.id).data.outputs))
      ]_vars

\* C7: a load whose text does not decode raises the invalid-data notice and
\* leaves past, present and future of both timelines as they were.
C7_FailedLoadKeepsState ==
    [][ (last'.op = "load" /\ last'.id \in {"bad", "null"}) =>
            /\ alert' = "Invalid JSON data"
            /\ nodesState' = nodesState
            /\ edgesState' = edgesState
      ]_vars

C7_Witness ==
    /\ last.op = "load"
    /\ last.id = "bad"
    /\ alert = "Invalid JSON data"
    /\ Len(nodesState.past) > 0
    /\ Len(nodesState.future) > 0
    /\ Len(nodes) > 0

\* C8: after a successful load the present node snapshot is the document's
\* nodes and the present edge snapshot the document's edges, each the empty
\* sequence when its key is missing, whatever was present before.
C8_LoadReplaces ==
    /\ (last.op = "load" /\ last.id = "empty") => (nodes = <<>> /\ edges = <<>>)
    /\ (last.op = "load" /\ last.id = "sample") =>
            (nodes = SampleNodes /\ edges = SampleEdges)
    /\ (last.op = "load" /\ last.id = "file") =>
            (nodes = file.nodes /\ edges = file.edges)

C8_Witness ==
    /\ last.op = "load"
    /\ last.id = "empty"
    /\ Len(nodesState.past) > 0
    /\ Len(nodesState.past[Len(nodesState.past)]) > 0
    /\ Len(edgesState.past[Len(edgesState.past)]) > 0

C10_ConnectNeverRejected ==
    last.op = "connect" =>
        /\ \E i \in DOMAIN edges : EndpointsOf(edges[i]) = last.params
        /\ last.note = "exists" =>
              \E i, j \in DOMAIN edges :
                  /\ EndpointsOf(edges[i]) = last.params
                  /\ EndpointsOf(edges[j]) = last.params
                  /\ edges[i].id # edges[j].id

\* C10 amended: a connect of endpoints not yet connected (a node's output to
\* its own input included) appends one edge, with the id made from the
\* endpoints; a connect of endpoints the present edge snapshot already holds
\* an edge for changes nothing, neither the snapshot nor the edge timeline.
C10_ConnectDropsDuplicates ==
    [][ last'.op = "connect" =>
            IF \E i \in DOMAIN edges : EndpointsOf(edges[i]) = last'.params
            THEN edgesState' = edgesState
            ELSE /\ Len(edges') = Len(edges) + 1
                 /\ SubSeq(edges', 1, Len(edges)) = edges
                 /\ EndpointsOf(edges'[Len(edges')]) = last'.params
                 /\ edges'[Len(edges')].id = getEdgeId(last'.params)
                 /\ edgesState'.past = Append(edgesState.past, edges)
      ]_vars

C10_Witness ==
    /\ last.op = "connect"
    /\ last.note = "exists"
    /\ last.params.source = last.params.target
    /\ Cardinality({i \in DOMAIN edges : EndpointsOf(edges[i]) = last.params}) = 1
    /\ Len(edges) = 2

\* C11: the ids of the nodes of the present node snapshot are pairwise
\* distinct, whatever add-node intents were handled and at whatever clock
\* readings.
C11_NodeIdsDistinct ==
    \A i, j \in DOMAIN nodes : i # j => nodes[i].id # nodes[j].id

LoadSucceeded(l) == l.op = "load" /\ l.note # "throws"

\* C12 as stated: a successful load replaces the state outside the undo log:
\* it adds no entry to the past of either timeline, so an undo cannot bring
\* the prior document back.
C12_LoadOutsideLog ==
    [][ LoadSucceeded(last') =>
            /\ nodesState'.past = nodesState.past
            /\ edgesState'.past = edgesState.past
      ]_vars

\* C12 amended: a successful load over a prior document D0 is a set on both
\* timelines: it pushes D0's nodes and edges onto the two pasts and empties
\* the two futures, and an application-undo right after it brings D0 back as
\* the present of both stores, with the loaded document first in both futures.
C12_LoadIsUndoable ==
    [][ /\ LoadSucceeded(last') =>
              /\ nodesState'.past = Append(nodesState.past, nodes)
              /\ edgesState'.past = Append(edgesState.past, edges)
              /\ nodesState'.future = <<>>
              /\ edgesState'.future = <<>>
        /\ (LoadSucceeded(last) /\ last'.op = "undo") =>
              /\ Len(nodesState.past) > 0
              /\ Len(edgesState.past) > 0
              /\ nodes' = nodesState.past[Len(nodesState.past)]
              /\ edges' = edgesState.past[Len(edgesState.past)]
              /\ nodesState'.future = <<nodes>>
              /\ edgesState'.future = <<edges>>
      ]_vars

\* The sample document (D0) was loaded, the empty document was loaded over it,
\* and the undo brought D0 back.
C12_Witness ==
    /\ last.op = "undo"
    /\ nodes = SampleNodes
    /\ edges = SampleEdges
    /\ nodesState.future = << <<>> >>
    /\ edgesState.future = << <<>> >>
    /\ nodesState.past = << <<>> >>
    /\ edgesState.past = << <<>> >>

\* The intents that change the node store only.
NodeOnly(l) ==
    l.op \in {"changeColor", "changeLabel", "changeDescription", "addNode",
              "addInput", "addOutput", "removeInput", "removeOutput",
              "renameInput", "renameOutput"}

\* A timeline one snapshot back: the last of past is present, the old present
\* is the first of future.
OneBack(state) ==
    [past |-> SubSeq(state.past, 1, Len(state.past) - 1),
     present |-> state.past[Len(state.past)],
     future |-> <<state.present>> \o state.future]

\* C13: a mutation of the node store only (recolor, relabel, add node,
\* add/remove/rename port) leaves the edge timeline as it was and pushes the
\* old present onto the node timeline; the application-undo that follows
\* steps the node timeline one snapshot back, and the edge timeline too
\* whenever its past is non-empty.
C13_NodeOnlySkew ==
    [][ /\ NodeOnly(last') =>
              /\ edgesState' = edgesState
              /\ nodesState'.past = Append(nodesState.past, nodes)
              /\ nodesState'.future = <<>>
        /\ (NodeOnly(last) /\ last'.op = "undo") =>
              /\ Len(nodesState.past) > 0
              /\ nodesState' = OneBack(nodesState)
              /\ Len(edgesState.past) > 0 => edgesState' = OneBack(edgesState)
      ]_vars

\* A recolor was undone, and the undo also took the edge timeline back from
\* a present with an edge that the recolor had not touched.
C13_Witness ==
    /\ last.op = "undo"
    /\ last.prev = "changeColor"
    /\ Len(nodesState.future) = 1
    /\ Len(edgesState.future) = 1
    /\ Len(edgesState.future[1]) > 0
    /\ edges = <<>>
    /\ Len(nodes) > 0

\* C14: canUndo holds exactly when one of the two pasts is non-empty and
\* canRedo exactly when one of the two futures is; an application-undo changes
\* a timeline if and only if canUndo held, an application-redo if and only if
\* canRedo held.
C14_ControlsEnabled ==
    [][ /\ canUndo <=> (Len(nodesState.past) > 0 \/ Len(edgesState.past) > 0)
        /\ canRedo <=> (Len(nodesState.future) > 0 \/ Len(edgesState.future) > 0)
        /\ last'.op = "undo" =>
              ((nodesState' # nodesState \/ edgesState' # edgesState) <=> canUndo)
        /\ last'.op = "redo" =>
              ((nodesState' # nodesState \/ edgesState' # edgesState) <=> canRedo)
      ]_vars

\* An undo was handled while only the edge timeline had a past, and a redo
\* is now possible on the edge timeline only.
C14_Witness ==
    /\ last.op = "undo"
    /\ last.edgesFuture = 0
    /\ Len(edgesState.future) = 1
    /\ Len(nodesState.future) = 0
    /\ Len(nodesState.past) = 0
    /\ canRedo
    /\ ~canUndo

\* A timeline one snapshot forward: the first of future is present, the old
\* present is the last of past.
OneForward(state) ==
    [past |-> Append(state.past, state.present),
     present |-> state.future[1],
     future |-> SubSeq(state.future, 2, Len(state.future))]

Concat(state) == state.past \o <<state.present>> \o state.future

\* C15: on each timeline an undo with an empty past and a redo with an empty
\* future change nothing; otherwise undo makes the last of past the present
\* and puts the old present first in future, and redo does the reverse; past,
\* present and future laid end to end are the same sequence before and after.
C15_UndoRedoSteps ==
    [][ /\ last'.op = "undo" =>
              /\ nodesState' = IF Len(nodesState.past) = 0 THEN nodesState
                               ELSE OneBack(nodesState)
              /\ edgesState' = IF Len(edgesState.past) = 0 THEN edgesState
                               ELSE OneBack(edgesState)
        /\ last'.op = "redo" =>
              /\ nodesState' = IF Len(nodesState.future) = 0 THEN nodesState
                               ELSE OneForward(nodesState)
              /\ edgesState' = IF Len(edgesState.future) = 0 THEN edgesState
                               ELSE OneForward(edgesState)
        /\ last'.op \in {"undo", "redo"} =>
              /\ Concat(nodesState') = Concat(nodesState)
              /\ Concat(edgesState') = Concat(edgesState)
      ]_vars

\* A redo took both timelines forward again after an undo had taken them back.
C15_Witness ==
    /\ last.op = "redo"
    /\ last.prev = "undo"
    /\ last.nodesFuture = 1
    /\ last.edgesFuture = 1
    /\ Len(nodesState.past) = 2
    /\ Len(edgesState.past) = 1
    /\ nodesState.future = <<>>
    /\ Len(nodes) > 0
    /\ Len(edges) > 0

\* The intents that mutate a store: all but undo, redo and save.
Mutation(l) ==
    \/ NodeOnly(l)
    \/ l.op \in {"deleteNode", "nodesChangeRemove", "nodesChangePosition",
                 "edgesChangeRemove", "connect", "connectionTypeChange", "load"}

\* The intents that update a field of a node's data.
FieldUpdate(l) ==
    l.op \in {"changeColor", "changeLabel", "changeDescription", "addInput",
              "addOutput", "removeInput", "removeOutput", "renameInput",
              "renameOutput"}

\* The snapshots a timeline held are still there, untouched: past has at most
\* grown by the old present, future is as it was or has been discarded whole.
KeepsSnapshots(before, after) ==
    /\ \/ after.past = before.past
       \/ after.past = Append(before.past, before.present)
    /\ \/ after.future = before.future
       \/ after.future = <<>>

\* C16: no mutation intent changes a snapshot that is stored in the past or
\* the future of a timeline, and an undo after an update of a node's fields
\* brings back the snapshot from before the update, with the previous values.
C16_SnapshotsImmutable ==
    [][ /\ Mutation(last') =>
              /\ KeepsSnapshots(nodesState, nodesState')
              /\ KeepsSnapshots(edgesState, edgesState')
        /\ FieldUpdate(last') =>
              nodesState'.past = Append(nodesState.past, nodes)
        /\ (FieldUpdate(last) /\ last'.op = "undo") =>
              /\ Len(nodesState.past) > 0
              /\ nodes' = nodesState.past[Len(nodesState.past)]
      ]_vars

\* A recolor to red was undone and the node is white again, the red snapshot
\* first in future.
C16_Witness ==
    /\ last.op = "undo"
    /\ last.prev = "changeColor"
    /\ Len(nodes) = 1
    /\ nodes[1].data.color = "#ffffff"
    /\ Len(nodesState.future) = 1
    /\ Len(nodesState.future[1]) = 1
    /\ nodesState.future[1][1].data.color = "#ff0000"
    /\ nodesState.past = << <<>> >>

\* C17: for every mounted node the label, description, color, inputs and
\* outputs its edit operations read are those of the node's record in the
\* present node snapshot.
C17_NoSecondSource ==
    \A id \in DOMAIN local :
        /\ id \in IdsOf(nodes)
        /\ local[id] = InitLocal(LastWithId(nodes, id).data)

\* C18: every edge of the present edge snapshot has a source node and a
\* target node that are in the present node snapshot.
C18_NoDanglingEdges ==
    \A i \in DOMAIN edges :
        /\ edges[i].source \in IdsOf(nodes)
        /\ edges[i].target \in IdsOf(nodes)

\* The timeline as it was before an undo that left `state`, given the length
\* its future had before the undo: the undo moved it exactly when its future
\* has grown.
BeforeUndo(state, futureLen) ==
    IF Len(state.future) = futureLen THEN state ELSE OneForward(state)

\* C19: an application-undo handled while canUndo holds, followed at once by
\* an application-redo, leaves past, present and future of both timelines as
\* they were before the undo.
C19_UndoRedoIdentity ==
    [][ ( /\ last.op = "undo"
          /\ last'.op = "redo"
          /\ \/ Len(nodesState.future) # last.nodesFuture
             \/ Len(edgesState.future) # last.edgesFuture ) =>
            /\ nodesState' = BeforeUndo(nodesState, last.nodesFuture)
            /\ edgesState' = BeforeUndo(edgesState, last.edgesFuture)
      ]_vars

\* The fresh mutation intents of C20.
FreshMutation(l) ==
    \/ l.op = "addNode"
    \/ FieldUpdate(l)
    \/ l.op \in {"deleteNode", "connect", "connectionTypeChange"}

\* C20: after a fresh mutation intent canRedo is false, both futures are
\* empty, and an application-redo that follows changes neither timeline.
C20_MutationClearsRedo ==
    [][ /\ FreshMutation(last') =>
              /\ ~canRedo'
              /\ nodesState'.future = <<>>
              /\ edgesState'.future = <<>>
        /\ (FreshMutation(last) /\ last'.op = "redo") =>
              /\ nodesState' = nodesState
              /\ edgesState' = edgesState
      ]_vars

\* Every edge of the present edge snapshot has the selected line style.
StylesAgree == \A i \in DOMAIN edges : edges[i].type = connectionLineType

\* C21: connect stamps the selected line style on the edge it adds; a change
\* of the selector gives every edge the new style and changes nothing else
\* of the edges (same ids, endpoints, order); and where every edge has the
\* selected style, it still has after a connect, a change of the selector, an
\* application-undo and an application-redo.
C21_StyleFollowsSelector ==
    [][ /\ (last'.op = "connect" /\ last'.note = "new") =>
              edges'[Len(edges')].type = connectionLineType
        /\ last'.op = "connectionTypeChange" =>
              /\ StylesAgree'
              /\ Len(edges') = Len(edges)
              /\ \A i \in DOMAIN edges :
                    /\ edges'[i].id = edges[i].id
                    /\ EndpointsOf(edges'[i]) = EndpointsOf(edges[i])
        /\ ( /\ StylesAgree
             /\ last'.op \in {"connect", "connectionTypeChange", "undo", "redo"} ) =>
              StylesAgree'
      ]_vars

====
